---- MODULE Spec2Model ----
(***************************************************************************)
(* Model of resources/SP20/extra/ValidationSet_Pitfall.ipynb: the data     *)
(* generator gen_data, Algorithm 1 (maximize validation score), the        *)
(* bootstrap estimator estimate_variance and Algorithm 2 (minimize         *)
(* bias^2 + variance with a refinement loop).                              *)
(*                                                                         *)
(* A frame (DataFrame / Series) is [col, ids]: the column it holds ("x" for *)
(* the features, "y" for the goal) and the index labels of its rows, in    *)
(* order. The value of row i of column c is <<c, i>>.                      *)
(* Scores and errors are floats in the notebook; here they are small       *)
(* naturals, which keeps every comparison the code makes (argmax, argmin). *)
(***************************************************************************)
EXTENDS Integers, Sequences, FiniteSets, TLC

\* ------------------------------------------------------------------ bounds
\* seeds tried besides the notebook's own
MaxSeed == 1
\* stands for the 1000 of range(1,1000) in Algorithm 1
A1Stop == 4
\* validation scores are drawn from 0..MaxScore
MaxScore == 2
\* variance estimates are drawn from 0..MaxVar
MaxVar == 1
\* lengths of the arrays handed to estimate_variance when it is run step by step
MaxLen == 3

\* --------------------------------------------------------- program constants
NotebookSeed == 42
NumRows == 500
Iters == 100
LowerStart == 1
UpperStart == 1000
\* stands for the 1e20 of line 215: larger than every error of the model
HugeError == 1000000
NoDepth == -1

Seeds == (0..MaxSeed) \cup {NotebookSeed}
ScoreVals == 0..MaxScore
VarVals == 0..MaxVar

\* ------------------------------------------------------------ python helpers
Min(a, b) == IF a <= b THEN a ELSE b
Max(a, b) == IF a >= b THEN a ELSE b

\* range(start, stop, step) for step > 0
PyRange(start, stop, step) ==
    LET n == IF stop > start THEN (stop - start + step - 1) \div step ELSE 0
    IN  [k \in 1..n |-> start + (k - 1) * step]

IndexError == -2

\* seq[i] with Python's 0-based index: a negative index counts from the end,
\* an index outside -len..len-1 raises IndexError
PyIndex(seq, i) ==
    IF i >= 0 /\ i < Len(seq) THEN seq[i + 1]
    ELSE IF i < 0 /\ i >= -Len(seq) THEN seq[Len(seq) + i + 1]
    ELSE IndexError

ArgMaxLast(seq) ==
    (CHOOSE i \in 1..Len(seq) :
        /\ \A j \in 1..Len(seq) : seq[j] <= seq[i]
        /\ \A j \in (i+1)..Len(seq) : seq[j] < seq[i]) - 1

\* np.argmax: 0-based index of the first maximum
ArgMax(seq) ==
    (CHOOSE i \in 1..Len(seq) :
        /\ \A j \in 1..Len(seq) : seq[j] <= seq[i]
        /\ \A j \in 1..(i-1) : seq[j] < seq[i]) - 1

\* np.argmin: 0-based index of the first minimum
ArgMin(seq) ==
    (CHOOSE i \in 1..Len(seq) :
        /\ \A j \in 1..Len(seq) : seq[j] >= seq[i]
        /\ \A j \in 1..(i-1) : seq[j] > seq[i]) - 1

\* len(frame)
PyLen(frame) == Len(frame.ids)

\* np.array(frame): the values by position, index labels dropped
NpArray(frame) == [k \in 1..Len(frame.ids) |-> <<frame.col, frame.ids[k]>>]

\* array[indices] for a sequence of 0-based positions
Take(seq, indices) == [k \in 1..Len(indices) |-> seq[indices[k] + 1]]

\* the rows of a frame at the given 0-based positions
Rows(frame, positions) == [col |-> frame.col, ids |-> Take(frame.ids, positions)]

IdSet(frame) == {frame.ids[k] : k \in 1..Len(frame.ids)}

NoFrame == [col |-> "none", ids |-> <<>>]

\* ------------------------------------------------------------------ gen_data
\* RandomState(random_state).permutation(n), 0-based positions: one permutation
\* for each (n, random_state); n has no prime factors besides 2 and 5 here
Permutation(n, random_state) ==
    [k \in 1..n |-> ((10 * random_state + 1) * (k - 1) + 7 * random_state) % n]

TrainTestSplitOverlap(X, Y, num, den, random_state) ==
    LET n       == PyLen(X)
        n_test  == (n * num + den - 1) \div den
        perm    == Permutation(n, random_state)
        test    == SubSeq(perm, 1, n_test)
        train   == SubSeq(perm, n_test, n)
    IN  [x_train |-> Rows(X, train), x_test |-> Rows(X, test),
         y_train |-> Rows(Y, train), y_test |-> Rows(Y, test)]

\* train_test_split(X, Y, test_size=num/den, random_state=...): the first
\* ceil(n * test_size) positions of the permutation go to the test part and
\* the rest to the train part
TrainTestSplit(X, Y, num, den, random_state) ==
    LET n       == PyLen(X)
        n_test  == (n * num + den - 1) \div den
        perm    == Permutation(n, random_state)
        test    == SubSeq(perm, 1, n_test)
        train   == SubSeq(perm, n_test + 1, n)
    IN  [x_train |-> Rows(X, train), x_test |-> Rows(X, test),
         y_train |-> Rows(Y, train), y_test |-> Rows(Y, test)]

GenDataSplitAll(s) ==
    LET features == [col |-> "x", ids |-> [k \in 1..NumRows |-> k - 1]]
        goal     == [col |-> "y", ids |-> [k \in 1..NumRows |-> k - 1]]
        first    == TrainTestSplit(features, goal, 1, 2, s)
        second   == TrainTestSplit(features, goal, 1, 5, s)
    IN  [x_train |-> second.x_train, x_valid |-> second.x_test, x_test |-> first.x_test,
         y_train |-> second.y_train, y_valid |-> second.y_test, y_test |-> first.y_test]

\* gen_data(seed): 500 rows, half to the test set, a fifth of the rest to the
\* validation set
GenData(s) ==
    LET features == [col |-> "x", ids |-> [k \in 1..NumRows |-> k - 1]]
        goal     == [col |-> "y", ids |-> [k \in 1..NumRows |-> k - 1]]
        first    == TrainTestSplit(features, goal, 1, 2, s)
        second   == TrainTestSplit(first.x_train, first.y_train, 1, 5, s)
    IN  [x_train |-> second.x_train, x_valid |-> second.x_test, x_test |-> first.x_test,
         y_train |-> second.y_train, y_valid |-> second.y_test, y_test |-> first.y_test]


\* --------------------------------------------------------------------- state
VARIABLES
    pc,                       \* position in the notebook
    seed, bias,               \* gen_data's argument; what the data makes of a depth
    x_train, x_valid, x_test, y_train, y_valid, y_test,
    depths, valid_scores, errors,
    best_index, best_depth, best_score, lowest_error,
    lower, upper, new_lower, new_upper,
    max_depth, bias_squared,
    tree, tree_using_valid_score, tree_using_bias_variance,
    ev_x_train, ev_y_train, all_indices, subset_of_indices,
    subset_x_train, subset_y_train, rounds, preds, ev_result,
    out,                      \* what the cells printed
    calls,                    \* library calls made so far: [fn, x, y, phase]
    test_reads,               \* how many of them were handed x_test or y_test
    minRecorded, noisy        \* history of Algorithm 2's recorded errors

dataVars == <<seed, bias, x_train, x_valid, x_test, y_train, y_valid, y_test>>
a1Vars   == <<valid_scores, best_score, tree_using_valid_score>>
a2Vars   == <<errors, lowest_error, lower, upper, new_lower, new_upper,
              tree_using_bias_variance, minRecorded, noisy>>
selVars  == <<depths, best_index, best_depth>>
loopVars == <<max_depth, bias_squared>>
evVars   == <<ev_x_train, ev_y_train, all_indices, subset_of_indices,
              subset_x_train, subset_y_train, rounds, preds, ev_result>>
logVars  == <<calls, test_reads>>
vars     == <<pc, dataVars, a1Vars, a2Vars, selVars, loopVars, evVars,
              tree, out, logVars>>

TouchesTest(c) == c.x \in {"x_test", "y_test"} \/ c.y \in {"x_test", "y_test"}

\* the log after an action made the calls cs
Logged(cs) ==
    /\ calls' = calls \cup cs
    /\ test_reads' = test_reads + Cardinality({c \in cs : TouchesTest(c)})

\* ---------------------------------------------------------------- the trees
\* A DecisionTreeRegressor: its hyperparameters, what it was last fitted on and
\* the score that fit attains on the validation set (which stands for the
\* fitted model: two fits with different predictions differ in it)
NoTree == [max_depth |-> 0, random_state |-> "None", fit_x |-> "none",
           fit_y |-> "none", valid_score |-> 0]

\* DecisionTreeRegressor(max_depth=d, random_state=rs).fit(x, y); v is the
\* outcome of the fit
Fit(d, rs, x, y, v) ==
    [max_depth |-> d, random_state |-> rs, fit_x |-> x, fit_y |-> y,
     valid_score |-> v]

\* tree.score(x_valid, y_valid)
ScoreOnValid(t) == t.valid_score

\* what the generated data makes of a depth: mean_squared_error of the tree
\* with max_depth d and random_state=2, a fixed function of d
\* ("flat": every depth alike; "spike": one depth better than all others)
BiasFns == {[kind |-> "flat", at |-> 0], [kind |-> "spike", at |-> 100]}

BiasSquared(b, d) ==
    IF b.kind = "spike" /\ d # b.at THEN 1 ELSE 0

\* ---------------------------------------------------------------- the cells
Init ==
    /\ pc = "gen_data"
    /\ seed = 0 /\ bias = [kind |-> "flat", at |-> 0]
    /\ x_train = NoFrame /\ x_valid = NoFrame /\ x_test = NoFrame
    /\ y_train = NoFrame /\ y_valid = NoFrame /\ y_test = NoFrame
    /\ depths = <<>> /\ valid_scores = <<>> /\ errors = <<>>
    /\ best_index = 0 /\ best_depth = 0 /\ best_score = 0 /\ lowest_error = 0
    /\ lower = 0 /\ upper = 0 /\ new_lower = 0 /\ new_upper = 0
    /\ max_depth = 0 /\ bias_squared = 0
    /\ tree = NoTree /\ tree_using_valid_score = NoTree
    /\ tree_using_bias_variance = NoTree
    /\ ev_x_train = <<>> /\ ev_y_train = <<>> /\ all_indices = <<>>
    /\ subset_of_indices = <<>> /\ subset_x_train = <<>> /\ subset_y_train = <<>>
    /\ rounds = 0 /\ preds = 0 /\ ev_result = NoDepth
    /\ out = <<>> /\ calls = {} /\ test_reads = 0
    /\ minRecorded = HugeError /\ noisy = FALSE

\* x_train,x_valid,x_test,y_train,y_valid,y_test = gen_data(seed)
CellGenData ==
    /\ pc = "gen_data"
    /\ \E s \in Seeds, b \in BiasFns :
          LET d == GenData(s) IN
          /\ seed' = s /\ bias' = b
          /\ x_train' = d.x_train /\ x_valid' = d.x_valid /\ x_test' = d.x_test
          /\ y_train' = d.y_train /\ y_valid' = d.y_valid /\ y_test' = d.y_test
    /\ pc' = "print_sizes"
    /\ UNCHANGED <<a1Vars, a2Vars, selVars, loopVars, evVars, tree, out, logVars>>

CellPrintSizes ==
    /\ pc = "print_sizes"
    /\ out' = out \o << <<"train set size:", PyLen(y_train)>>,
                        <<"validation set size:", PyLen(y_valid)>>,
                        <<"test set size:", PyLen(y_test)>> >>
    /\ pc' = "alg1_sweep"
    /\ UNCHANGED <<dataVars, a1Vars, a2Vars, selVars, loopVars, evVars, tree, logVars>>

A1SweepCallsOnTest ==
    {[fn |-> "fit", x |-> "x_train", y |-> "y_train", phase |-> "a1_select"],
     [fn |-> "score", x |-> "x_test", y |-> "y_test", phase |-> "a1_select"]}

\* the data Algorithm 1's sweep hands to the library (lines 145, 147)
A1SweepCalls ==
    {[fn |-> "fit", x |-> "x_train", y |-> "y_train", phase |-> "a1_select"],
     [fn |-> "score", x |-> "x_valid", y |-> "y_valid", phase |-> "a1_select"]}

\* lines 153-155
A1FinalCalls ==
    {[fn |-> "fit", x |-> "x_train", y |-> "y_train", phase |-> "a1_final"],
     [fn |-> "score", x |-> "x_test", y |-> "y_test", phase |-> "a1_final"]}

\* Algorithm 1, lines 142-152: the sweep, the argmax and the two prints.
\* fits[k] is the outcome of the k-th fit (no random_state: any outcome)
A1Sweep ==
    /\ pc = "alg1_sweep"
    /\ LET ds == PyRange(1, A1Stop, 1) IN
       \E fits \in [1..Len(ds) -> ScoreVals] :
          LET trees  == [k \in 1..Len(ds) |->
                            Fit(ds[k], "None", "x_train", "y_train", fits[k])]
              scores == [k \in 1..Len(ds) |-> ScoreOnValid(trees[k])]
              bi     == ArgMax(scores)
          IN  /\ depths' = ds
              /\ valid_scores' = scores
              /\ max_depth' = ds[Len(ds)]
              /\ tree' = trees[Len(ds)]
              /\ best_index' = bi
              /\ best_depth' = PyIndex(ds, bi)
              /\ best_score' = PyIndex(scores, bi)
              /\ out' = out \o << <<"highest validation score of", PyIndex(scores, bi),
                                    "at a max_depth of", PyIndex(ds, bi)>> >>
    /\ Logged(A1SweepCalls)
    /\ pc' = "alg1_final"
    /\ UNCHANGED <<dataVars, tree_using_valid_score, a2Vars, bias_squared, evVars>>

\* Algorithm 1, lines 153-155: a new tree of the chosen depth, fitted and scored
A1Final ==
    /\ pc = "alg1_final"
    /\ \E v \in ScoreVals :
          tree_using_valid_score' = Fit(best_depth, "None", "x_train", "y_train", v)
    /\ out' = out \o << <<"test score:", "tree_using_valid_score">> >>
    /\ Logged(A1FinalCalls)
    /\ pc' = "alg2_start"
    /\ UNCHANGED <<dataVars, valid_scores, best_score, a2Vars, selVars, loopVars,
                   evVars, tree>>


\* ------------------------------------------------------------- Algorithm 2
\* lines 215-218
A2Start ==
    /\ pc = "alg2_start"
    /\ best_depth' = NoDepth /\ lowest_error' = HugeError
    /\ out' = out \o << <<"Running Algorithm 2. This might take a minute or two...">> >>
    /\ lower' = LowerStart /\ upper' = UpperStart
    /\ pc' = "alg2_loop"
    /\ UNCHANGED <<dataVars, a1Vars, errors, new_lower, new_upper,
                   tree_using_bias_variance, minRecorded, noisy, depths, best_index,
                   loopVars, evVars, tree, logVars>>

\* range(lower,upper+1,max((upper - lower) // 10,1)), line 221
SweepDepths(lo, up) == PyRange(lo, up + 1, Max((up - lo) \div 10, 1))

AssertSkipped(xt, yt) == TRUE

\* assert len(x_train) == len(y_train), line 183
AssertOK(xt, yt) == PyLen(xt) = PyLen(yt)

SelectUnclamped(ds, errs) ==
    LET bi == ArgMin(errs) IN
    [best_index |-> bi, best_depth |-> PyIndex(ds, bi),
     lowest_error |-> PyIndex(errs, bi),
     new_lower |-> PyIndex(ds, bi - 1),
     new_upper |-> PyIndex(ds, bi + 1)]

\* lines 229-232: the sweep's best depth and its two neighbours
Select(ds, errs) ==
    LET bi == ArgMin(errs) IN
    [best_index |-> bi, best_depth |-> PyIndex(ds, bi),
     lowest_error |-> PyIndex(errs, bi),
     new_lower |-> PyIndex(ds, Max(0, bi - 1)),
     new_upper |-> PyIndex(ds, Min(Len(ds) - 1, bi + 1))]

NextIntervalKept(sel, lo, up) == <<lo, up>>

\* lines 235-236: the interval of the next sweep
NextInterval(sel, lo, up) == <<sel.new_lower, sel.new_upper>>

\* the data one sweep hands to the library: lines 223-226 and, inside
\* estimate_variance, lines 192-193
A2SweepCalls ==
    {[fn |-> "fit", x |-> "x_train", y |-> "y_train", phase |-> "a2_select"],
     [fn |-> "predict", x |-> "x_valid", y |-> "none", phase |-> "a2_select"],
     [fn |-> "mean_squared_error", x |-> "valid_pred", y |-> "y_valid",
      phase |-> "a2_select"],
     [fn |-> "estimate_variance", x |-> "x_train", y |-> "y_train",
      phase |-> "a2_select"],
     [fn |-> "fit", x |-> "subset_x_train", y |-> "subset_y_train",
      phase |-> "a2_select"]}

\* lines 240-241
A2FinalCalls ==
    {[fn |-> "fit", x |-> "x_train", y |-> "y_train", phase |-> "a2_final"],
     [fn |-> "score", x |-> "x_test", y |-> "y_test", phase |-> "a2_final"]}

SeqMin(seq) == PyIndex(seq, ArgMin(seq))

\* lines 229-236, after the for loop filled depths and errors
EndOfSweep(ds, errs) ==
    LET sel  == Select(ds, errs)
        nxt  == NextInterval(sel, lower, upper)
    IN  /\ depths' = ds /\ errors' = errs
        /\ best_index' = sel.best_index
        /\ best_depth' = sel.best_depth
        /\ lowest_error' = sel.lowest_error
        /\ new_lower' = sel.new_lower
        /\ new_upper' = sel.new_upper
        /\ minRecorded' = Min(minRecorded, SeqMin(errs))
        /\ IF sel.new_lower = lower /\ sel.new_upper = upper
           THEN pc' = "alg2_final" /\ UNCHANGED <<lower, upper>>
           ELSE pc' = "alg2_loop" /\ lower' = nxt[1] /\ upper' = nxt[2]

\* One pass of the while loop, lines 220-236. variances[k] is what the k-th
\* call of estimate_variance returns.
A2Sweep(variances) ==
    /\ pc = "alg2_loop"
    /\ LET ds == SweepDepths(lower, upper) IN
       /\ Len(variances) = Len(ds)
       /\ Logged(A2SweepCalls)
       /\ IF ~AssertOK(x_train, y_train)
          THEN /\ pc' = "aborted"
               /\ depths' = <<>> /\ errors' = <<>>
               /\ max_depth' = ds[1]
               /\ bias_squared' = BiasSquared(bias, ds[1])
               /\ tree' = Fit(ds[1], "2", "x_train", "y_train", 0)
               /\ out' = Append(out, <<"AssertionError">>)
               /\ UNCHANGED <<best_index, best_depth, lowest_error, lower, upper,
                              new_lower, new_upper, minRecorded, noisy>>
          ELSE LET errs == [k \in 1..Len(ds) |->
                               BiasSquared(bias, ds[k]) + variances[k]]
               IN  /\ EndOfSweep(ds, errs)
                   /\ max_depth' = ds[Len(ds)]
                   /\ bias_squared' = BiasSquared(bias, ds[Len(ds)])
                   /\ tree' = Fit(ds[Len(ds)], "2", "subset_x_train",
                                  "subset_y_train", 0)
                   /\ noisy' = (noisy \/ \E k \in 1..Len(ds) : variances[k] # 0)
                   /\ UNCHANGED out
    /\ UNCHANGED <<dataVars, a1Vars, tree_using_bias_variance, evVars>>

\* lines 237-241
A2Final ==
    /\ pc = "alg2_final"
    /\ \E v \in ScoreVals :
          tree_using_bias_variance' =
              Fit(best_depth, "None", "x_train", "y_train", v)
    /\ out' = out \o << <<"lowest error of", lowest_error,
                          "at a max_depth of", best_depth>>,
                        <<"test score:", "tree_using_bias_variance">> >>
    /\ Logged(A2FinalCalls)
    /\ pc' = "done"
    /\ UNCHANGED <<dataVars, a1Vars, errors, lowest_error, lower, upper, new_lower,
                   new_upper, minRecorded, noisy, selVars, loopVars, evVars, tree>>

\* variance estimates of one sweep: all equal, or all equal but for one depth
\* whose estimate is 0
VarLists(n) ==
    {[i \in 1..n |-> IF i = k THEN 0 ELSE v] : k \in 1..n, v \in VarVals}
    \cup {[i \in 1..n |-> v] : v \in VarVals}

ZeroList(n) == [i \in 1..n |-> 0]

\* ------------------------------------------- the notebook run top to bottom
A2SweepQuiet == A2Sweep(ZeroList(Len(SweepDepths(lower, upper))))

Next ==
    \/ CellGenData
    \/ CellPrintSizes
    \/ A1Sweep
    \/ A1Final
    \/ A2Start
    \/ A2SweepQuiet
    \/ A2Final

Spec == Init /\ [][Next]_vars


\* --------------------------------------------- Algorithm 2's cell on its own
\* The kernel when the Algorithm 2 cell starts: the data of gen_data and the
\* globals Algorithm 1 left behind (here after a sweep whose scores were all 0)
AfterAlgorithm1(d, s, b) ==
    LET ds == PyRange(1, A1Stop, 1)
    IN  /\ seed = s /\ bias = b
        /\ x_train = d.x_train /\ x_valid = d.x_valid /\ x_test = d.x_test
        /\ y_train = d.y_train /\ y_valid = d.y_valid /\ y_test = d.y_test
        /\ depths = ds /\ valid_scores = [k \in 1..Len(ds) |-> 0]
        /\ errors = <<>>
        /\ best_index = 0 /\ best_depth = 1 /\ best_score = 0 /\ lowest_error = 0
        /\ lower = 0 /\ upper = 0 /\ new_lower = 0 /\ new_upper = 0
        /\ max_depth = ds[Len(ds)] /\ bias_squared = 0
        /\ tree = Fit(ds[Len(ds)], "None", "x_train", "y_train", 0)
        /\ tree_using_valid_score = Fit(1, "None", "x_train", "y_train", 0)
        /\ tree_using_bias_variance = NoTree
        /\ ev_x_train = <<>> /\ ev_y_train = <<>> /\ all_indices = <<>>
        /\ subset_of_indices = <<>> /\ subset_x_train = <<>> /\ subset_y_train = <<>>
        /\ rounds = 0 /\ preds = 0 /\ ev_result = NoDepth
        /\ out = << <<"train set size:", PyLen(d.y_train)>>,
                    <<"validation set size:", PyLen(d.y_valid)>>,
                    <<"test set size:", PyLen(d.y_test)>>,
                    <<"highest validation score of", 0, "at a max_depth of", 1>>,
                    <<"test score:", "tree_using_valid_score">> >>
        /\ calls = A1SweepCalls \cup A1FinalCalls /\ test_reads = 1
        /\ minRecorded = HugeError /\ noisy = FALSE
        /\ pc = "alg2_start"

InitA2 ==
    \E b \in BiasFns : AfterAlgorithm1(GenData(NotebookSeed), NotebookSeed, b)

A2SweepAny == \E vl \in VarLists(Len(SweepDepths(lower, upper))) : A2Sweep(vl)

NextA2 ==
    \/ A2Start
    \/ A2SweepAny
    \/ A2Final

SpecA2 == InitA2 /\ [][NextA2]_vars

\* ------------------------------ Algorithm 2's cell, statement by statement
\* The same cell with the for loop and estimate_variance taken one statement
\* (one resampling round) at a time.

\* line 220
SweepBegin ==
    /\ pc = "alg2_loop"
    /\ depths' = <<>> /\ errors' = <<>>
    /\ pc' = "loop_head"
    /\ UNCHANGED <<dataVars, a1Vars, lowest_error, lower, upper, new_lower, new_upper,
                   tree_using_bias_variance, minRecorded, noisy, best_index,
                   best_depth, loopVars, evVars, tree, out, logVars>>

\* What the library's own input check makes of tree.fit(x_train, y_train) is
\* outside the notebook: equal lengths are accepted, unequal lengths are
\* either accepted or rejected with an exception
FitAccepts(xt, yt) == IF PyLen(xt) = PyLen(yt) THEN {TRUE} ELSE {TRUE, FALSE}

\* lines 221-226: the next depth of the sweep, its tree, bias_squared, and the
\* call of estimate_variance(tree, x_train, y_train, x_valid)
LoopBody ==
    /\ pc = "loop_head"
    /\ LET ds == SweepDepths(lower, upper)
           k  == Len(depths) + 1
       IN  /\ k <= Len(ds)
           /\ max_depth' = ds[k]
           /\ tree' = Fit(ds[k], "2", "x_train", "y_train", 0)
           /\ bias_squared' = BiasSquared(bias, ds[k])
    /\ \E accepted \in FitAccepts(x_train, y_train) :
          IF accepted
          THEN pc' = "ev_assert" /\ UNCHANGED out
          ELSE pc' = "aborted" /\ out' = Append(out, <<"ValueError">>)
    /\ ev_x_train' = <<>> /\ ev_y_train' = <<>> /\ all_indices' = <<>>
    /\ subset_of_indices' = <<>> /\ subset_x_train' = <<>> /\ subset_y_train' = <<>>
    /\ rounds' = 0 /\ preds' = 0 /\ ev_result' = NoDepth
    /\ Logged({c \in A2SweepCalls : c.x # "subset_x_train"})
    /\ UNCHANGED <<dataVars, a1Vars, a2Vars, selVars>>

\* line 183
EVAssert ==
    /\ pc = "ev_assert"
    /\ IF AssertOK(x_train, y_train)
       THEN pc' = "ev_setup" /\ UNCHANGED out
       ELSE pc' = "aborted" /\ out' = Append(out, <<"AssertionError">>)
    /\ UNCHANGED <<dataVars, a1Vars, a2Vars, selVars, loopVars, evVars, tree,
                   logVars>>

\* lines 184-188: the locals x_train and y_train are both made from x_train
EVSetup ==
    /\ pc = "ev_setup"
    /\ all_indices' = PyRange(0, PyLen(x_train), 1)
    /\ ev_x_train' = NpArray(x_train)
    /\ ev_y_train' = NpArray(x_train)
    /\ rounds' = 0 /\ preds' = 0
    /\ pc' = "ev_round"
    /\ UNCHANGED <<dataVars, a1Vars, a2Vars, selVars, loopVars, subset_of_indices,
                   subset_x_train, subset_y_train, ev_result, tree, out, logVars>>

\* np.random.choice(all_indices, size): size draws with replacement
Choices(indices, size) ==
    [1..size -> {indices[k] : k \in 1..Len(indices)}]

\* lines 190-193: one resampling round
EVRound ==
    /\ pc = "ev_round"
    /\ rounds < Iters
    /\ \E sub \in Choices(all_indices, Len(all_indices) \div 2) :
          /\ subset_of_indices' = sub
          /\ subset_x_train' = Take(ev_x_train, sub)
          /\ subset_y_train' = Take(ev_y_train, sub)
    /\ tree' = Fit(max_depth, "2", "subset_x_train", "subset_y_train", 0)
    /\ preds' = preds + 1
    /\ rounds' = rounds + 1
    /\ Logged({c \in A2SweepCalls : c.x = "subset_x_train"}
              \cup {[fn |-> "predict", x |-> "x_valid", y |-> "none",
                     phase |-> "a2_select"]})
    /\ UNCHANGED <<pc, dataVars, a1Vars, a2Vars, selVars, loopVars, ev_x_train,
                   ev_y_train, all_indices, ev_result, out>>

\* lines 194-195 and, back in the cell, lines 227-228; v is the estimate
EVReturn(v) ==
    /\ pc = "ev_round"
    /\ rounds = Iters
    /\ ev_result' = v
    /\ depths' = Append(depths, max_depth)
    /\ errors' = Append(errors, bias_squared + v)
    /\ noisy' = (noisy \/ v # 0)
    /\ pc' = "loop_head"
    /\ UNCHANGED <<dataVars, a1Vars, lowest_error, lower, upper, new_lower, new_upper,
                   tree_using_bias_variance, minRecorded, best_index, best_depth,
                   loopVars, ev_x_train, ev_y_train, all_indices, subset_of_indices,
                   subset_x_train, subset_y_train, rounds, preds, tree, out, logVars>>

\* lines 229-236, once the for loop is exhausted
SweepEnd ==
    /\ pc = "loop_head"
    /\ Len(depths) = Len(SweepDepths(lower, upper))
    /\ EndOfSweep(depths, errors)
    /\ UNCHANGED <<dataVars, a1Vars, tree_using_bias_variance, noisy, loopVars,
                   evVars, tree, out, logVars>>

Frame(col, n) == [col |-> col, ids |-> [k \in 1..n |-> k - 1]]

\* A kernel in which x_train and y_train are bound to frames of n and m rows
\* when the Algorithm 2 cell is run (gen_data itself returns equal lengths)
InitEV ==
    \E n \in 2..MaxLen, m \in 2..MaxLen, b \in BiasFns :
        AfterAlgorithm1([x_train |-> Frame("x", n), y_train |-> Frame("y", m),
                         x_valid |-> Frame("x", 1), y_valid |-> Frame("y", 1),
                         x_test |-> Frame("x", 1), y_test |-> Frame("y", 1)],
                        NotebookSeed, b)

\* the estimate is held at 0 here; SpecA2 lets it vary
EVReturnZero == EVReturn(0)

NextEV ==
    \/ A2Start
    \/ SweepBegin
    \/ LoopBody
    \/ EVAssert
    \/ EVSetup
    \/ EVRound
    \/ EVReturnZero
    \/ SweepEnd
    \/ A2Final

SpecEV == InitEV /\ [][NextEV]_vars


\* ------------------------------------------------------------------- claims
AllRows == 0..(NumRows - 1)
SplitDone == pc # "gen_data"
Alg1Selected == pc \in {"alg1_final", "alg2_start"}
Alg1Finished == pc \in {"alg2_start", "alg2_loop", "alg2_final", "done"}
Alg2Selected == pc \in {"alg2_final", "done"}

\* C1: whatever the seed, train, validation and test are pairwise disjoint sets
\* of row indices of the 500 generated rows, no row is repeated or dropped, and
\* the x and y part of each partition carry the same row indices
PartitionsDisjointAndComplete ==
    SplitDone =>
        /\ IdSet(x_train) \cap IdSet(x_valid) = {}
        /\ IdSet(x_train) \cap IdSet(x_test) = {}
        /\ IdSet(x_valid) \cap IdSet(x_test) = {}
        /\ IdSet(x_train) \cup IdSet(x_valid) \cup IdSet(x_test) = AllRows
        /\ PyLen(x_train) + PyLen(x_valid) + PyLen(x_test) = NumRows
        /\ x_train.ids = y_train.ids /\ x_valid.ids = y_valid.ids
        /\ x_test.ids = y_test.ids
        /\ x_train.col = "x" /\ x_valid.col = "x" /\ x_test.col = "x"
        /\ y_train.col = "y" /\ y_valid.col = "y" /\ y_test.col = "y"

SplitWithNotebookSeed ==
    pc = "print_sizes" /\ seed = NotebookSeed /\ IdSet(x_valid) # {}

\* C5: whatever the seed, gen_data returns 200 train rows, 50 validation rows
\* and 250 test rows, each y part as long as its x part
SplitSizes ==
    SplitDone =>
        /\ PyLen(x_train) = 200 /\ PyLen(y_train) = 200
        /\ PyLen(x_valid) = 50 /\ PyLen(y_valid) = 50
        /\ PyLen(x_test) = 250 /\ PyLen(y_test) = 250

SizesPrinted ==
    /\ pc = "alg1_sweep" /\ seed # NotebookSeed
    /\ out = << <<"train set size:", 200>>, <<"validation set size:", 50>>,
                <<"test set size:", 250>> >>

\* C2: x_test and y_test are read by nothing but the final score call of each
\* algorithm, once each, after that algorithm's best_depth is fixed
TestSetHeldOut ==
    /\ \A c \in calls :
          TouchesTest(c) => /\ c.fn = "score"
                            /\ c.phase \in {"a1_final", "a2_final"}
                            /\ c.phase = "a1_final" => Alg1Finished
                            /\ c.phase = "a2_final" => pc = "done"
    /\ test_reads = (IF Alg1Finished THEN 1 ELSE 0) + (IF pc = "done" THEN 1 ELSE 0)

BothTestScoresTaken ==
    /\ pc = "done" /\ test_reads = 2
    /\ \E c \in calls : c.phase = "a2_select"
    /\ \E c \in calls : c.phase = "a1_select"

\* C3: after Algorithm 1's sweep best_score is the largest recorded validation
\* score and best_depth the smallest depth that recorded it
Alg1PicksHighestScore ==
    Alg1Selected =>
        /\ Len(valid_scores) = A1Stop - 1
        /\ depths = [k \in 1..(A1Stop - 1) |-> k]
        /\ best_depth \in 1..Len(valid_scores)
        /\ valid_scores[best_depth] = best_score
        /\ \A k \in 1..Len(valid_scores) : valid_scores[k] <= best_score
        /\ \A k \in 1..(best_depth - 1) : valid_scores[k] < best_score

TieBrokenBySmallestDepth ==
    /\ pc = "alg1_final"
    /\ best_depth = 2
    /\ \E k \in 3..Len(valid_scores) : valid_scores[k] = best_score

\* C7: the tree Algorithm 1 scores on the test set is the fitted model that
\* recorded best_score in the sweep (so its validation score is best_score)
TestedTreeIsSelectedTree ==
    Alg1Finished =>
        /\ tree_using_valid_score.max_depth = PyIndex(depths, ArgMax(valid_scores))
        /\ ScoreOnValid(tree_using_valid_score) = best_score

\* C4: when the refinement loop has exited, lowest_error is no larger than any
\* error recorded in any sweep, and best_depth is a depth that recorded it
LowestOfAllTried ==
    Alg2Selected =>
        /\ lowest_error <= minRecorded
        /\ \E k \in 1..Len(depths) : depths[k] = best_depth /\ errors[k] = lowest_error

\* C4 for errors that are a fixed function of max_depth
LowestOfAllTriedFixed ==
    (Alg2Selected /\ ~noisy) => lowest_error <= minRecorded

\* C9: the refinement loop ends after finitely many sweeps whatever the errors:
\* upper - lower starts within 0..999, never leaves it, and every sweep that
\* does not break makes it strictly smaller
SweepNarrows ==
    [][(pc = "alg2_loop" /\ pc' = "alg2_loop") =>
          (upper' - lower' < upper - lower /\ upper' - lower' >= 0)]_vars

VariantBounded ==
    pc = "alg2_loop" => upper - lower \in 0..(UpperStart - LowerStart)

RefinementTerminates == []VariantBounded /\ SweepNarrows

EndedAfterNoisySweeps ==
    pc = "done" /\ noisy /\ lower > LowerStart /\ upper - lower <= 2

\* C10: each sweep starts with 1 <= lower <= upper <= 1000, evaluates lower and
\* only depths of [lower, upper], indexes depths within range, and the next
\* interval lies in the current one and holds the sweep's best depth
IntervalInRange ==
    pc = "alg2_loop" => LowerStart <= lower /\ lower <= upper /\ upper <= UpperStart

SweepStaysInside ==
    [][pc = "alg2_loop" =>
          /\ Len(depths') >= 1
          /\ depths'[1] = lower
          /\ \A k \in 1..Len(depths') : depths'[k] >= lower /\ depths'[k] <= upper
          /\ best_index' \in 0..(Len(depths') - 1)
          /\ new_lower' = depths'[Max(0, best_index' - 1) + 1]
          /\ new_upper' = depths'[Min(Len(depths') - 1, best_index' + 1) + 1]
          /\ lower <= new_lower' /\ new_lower' <= best_depth'
          /\ best_depth' <= new_upper' /\ new_upper' <= upper
          /\ lower <= lower' /\ upper' <= upper]_vars

RefinementIntervalSafe == []IntervalInRange /\ SweepStaysInside

NarrowedInsideRange ==
    /\ pc = "alg2_loop" /\ lower > LowerStart /\ upper < UpperStart
    /\ upper - lower >= 10 /\ best_depth > lower /\ best_depth < upper


\* C6: when estimate_variance is called with len(x_train) # len(y_train) the
\* assertion fails before anything is sampled, fitted or predicted inside it,
\* nothing is returned, and the cell stops: no sweep completes, no break, no
\* "lowest error" line, no tree_using_bias_variance
MismatchStopsTheRun ==
    ~(PyLen(x_train) = PyLen(y_train)) =>
        /\ pc \in {"alg2_start", "alg2_loop", "loop_head", "ev_assert", "aborted"}
        /\ all_indices = <<>> /\ subset_of_indices = <<>>
        /\ rounds = 0 /\ preds = 0 /\ ev_result = NoDepth
        /\ tree.fit_x # "subset_x_train"
        /\ \A c \in calls : c.x # "subset_x_train" /\ c.phase # "a2_final"
        /\ depths \in {PyRange(1, A1Stop, 1), <<>>} /\ errors = <<>>
        /\ lower \in {0, LowerStart} /\ upper \in {0, UpperStart}
        /\ new_lower = 0 /\ new_upper = 0
        /\ \A k \in 1..Len(out) : out[k][1] # "lowest error of"
        /\ tree_using_bias_variance = NoTree
        /\ test_reads = 1

AssertionStoppedTheRun ==
    /\ pc = "aborted"
    /\ out[Len(out)] = <<"AssertionError">>
    /\ PyLen(x_train) # PyLen(y_train)
    /\ max_depth = LowerStart

\* C8: each resampling round fits the model on the rows of x_train at the
\* sampled indices and the values of the y_train argument at the same indices,
\* len(x_train)//2 indices drawn from 0..len(x_train)-1
RoundFitsTrainingPairs ==
    (pc = "ev_round" /\ rounds > 0) =>
        /\ Len(subset_of_indices) = PyLen(x_train) \div 2
        /\ \A k \in 1..Len(subset_of_indices) :
              subset_of_indices[k] \in 0..(PyLen(x_train) - 1)
        /\ subset_x_train = Take(NpArray(x_train), subset_of_indices)
        /\ subset_y_train = Take(NpArray(y_train), subset_of_indices)

\* C8 for the features alone
RoundFitsTrainingFeatures ==
    (pc = "ev_round" /\ rounds > 0) =>
        /\ Len(subset_of_indices) = PyLen(x_train) \div 2
        /\ \A k \in 1..Len(subset_of_indices) :
              subset_of_indices[k] \in 0..(PyLen(x_train) - 1)
        /\ subset_x_train = Take(NpArray(x_train), subset_of_indices)

====
